---- MODULE Spec2Model ----
(***************************************************************************)
(* lambda_handler of src/lambda/lambda_function.py: list the Elastic IPs   *)
(* of the scope, release every one that is bound to no instance, count the *)
(* releases that went through, return {statusCode, body}.                  *)
(*                                                                         *)
(* The EC2 service (the address pool, the paged listing, the release call) *)
(* is the environment of the handler.  Several triggers may invoke the     *)
(* handler over the same pool.                                             *)
(***************************************************************************)
EXTENDS Integers, Sequences, FiniteSets, TLC

\* ------------------------------------------------------------------ bounds
NumAllocs == 3
NumInvokers == 2
\* addresses in the pool when invocations run concurrently
NumContended == 2
\* addresses per page of the listing
PageSize == 2

Allocs == 1..NumAllocs
Invokers == 1..NumInvokers

\* ------------------------------------------------------------ program data
StatusOK == 200

None == "None"
Absent == "absent"
Instances == {"i-1"}

\* what release() may raise; all are Exception subclasses in botocore
NotFound == "InvalidAllocationID.NotFound"
InUse == "InvalidIPAddress.InUse"
AuthFailure == "AuthFailure"
ReleaseErrors == {NotFound, InUse, AuthFailure}
Ok == "ok"

PublicIp(a) == <<10, 0, 0, a>>

NoElasticIp == [allocation_id |-> 0, public_ip |-> <<>>, instance_id |-> None]
NoResult == [statusCode |-> 0, body |-> <<>>]

VARIABLES
    pool,            \* the account's addresses: Absent, None (unbound) or an instance id
    pc,              \* where each invocation stands
    released_count,  \* line 6
    token,           \* the listing's continuation: the next allocation to list
    page,            \* the items of the fetched page not yet iterated
    elastic_ip,      \* the loop variable of line 9
    result,          \* what the invocation returned
    log,             \* the records printed by the invocation
    seen,            \* history: the items the loop has iterated over
    calls,           \* history: the release calls made, with their outcomes
    listErr,         \* history: the listing raised in this invocation
    prev,            \* history: how the invoker's previous invocation ended
    released         \* history: the allocations the handler's calls have released

vars == <<pool, pc, released_count, token, page, elastic_ip, result, log,
          seen, calls, listErr, prev, released>>

Running == {"iter", "release"}
Terminal == {"done", "failed", "timedout"}

\* --------------------------------------------------------------- helpers
Digit(d) == CASE d = 0 -> "0" [] d = 1 -> "1" [] d = 2 -> "2" [] d = 3 -> "3"
              [] d = 4 -> "4" [] d = 5 -> "5" [] d = 6 -> "6" [] d = 7 -> "7"
              [] d = 8 -> "8" [] d = 9 -> "9"

RECURSIVE IntToStr(_)
IntToStr(n) == IF n < 10 THEN <<Digit(n)>>
               ELSE IntToStr(n \div 10) \o <<Digit(n % 10)>>

\* f'Released {released_count} unassociated EIP(s).'
Body(n) == <<"Released ">> \o IntToStr(n) \o <<" unassociated EIP(s).">>

\* f"Releasing unassociated EIP: {public_ip} ({allocation_id})"
InfoRecord(ip) == [level |-> "info", public_ip |-> ip.public_ip,
                   allocation_id |-> ip.allocation_id, detail |-> ""]

\* f"Error releasing EIP {allocation_id}: {e}"
ErrorRecord(ip, e) == [level |-> "error", public_ip |-> <<>>,
                       allocation_id |-> ip.allocation_id, detail |-> e]

Address(a) == [allocation_id |-> a, public_ip |-> PublicIp(a),
               instance_id |-> pool[a]]

\* the addresses lo..hi that exist, in the service's order
RECURSIVE Listing(_, _)
Listing(lo, hi) ==
    IF lo > hi THEN <<>>
    ELSE (IF pool[lo] = Absent THEN <<>> ELSE <<Address(lo)>>) \o Listing(lo + 1, hi)

\* ------------------------------------------------------------------ Init
Init ==
    /\ pool \in [Allocs -> {Absent, None} \cup Instances]
    /\ pc = [p \in Invokers |-> "idle"]
    /\ released_count = [p \in Invokers |-> 0]
    /\ token = [p \in Invokers |-> 1]
    /\ page = [p \in Invokers |-> <<>>]
    /\ elastic_ip = [p \in Invokers |-> NoElasticIp]
    /\ result = [p \in Invokers |-> NoResult]
    /\ log = [p \in Invokers |-> <<>>]
    /\ seen = [p \in Invokers |-> <<>>]
    /\ calls = [p \in Invokers |-> <<>>]
    /\ listErr = [p \in Invokers |-> FALSE]
    /\ prev = [p \in Invokers |-> "none"]
    /\ released = {}

\* the pool of the concurrent invocations: NumContended addresses at most
InitConc ==
    /\ Init
    /\ \A a \in Allocs : a > NumContended => pool[a] = Absent

\* --------------------------------------------------------------- actions
\* how an invocation that ended is remembered by the next one
Outcome(p) ==
    IF pc[p] = "idle" THEN "none"
    ELSE IF pc[p] # "done" THEN "aborted"
    ELSE IF \E i \in 1..Len(calls[p]) : calls[p][i].outcome # Ok THEN "partial"
    ELSE "clean"

\* mutant: the counter lives at module level and survives a warm start
StartWarm(p) ==
    /\ pc' = [pc EXCEPT ![p] = "iter"]
    /\ token' = [token EXCEPT ![p] = 1]
    /\ page' = [page EXCEPT ![p] = <<>>]
    /\ elastic_ip' = [elastic_ip EXCEPT ![p] = NoElasticIp]
    /\ result' = [result EXCEPT ![p] = NoResult]
    /\ log' = [log EXCEPT ![p] = <<>>]
    /\ seen' = [seen EXCEPT ![p] = <<>>]
    /\ calls' = [calls EXCEPT ![p] = <<>>]
    /\ listErr' = [listErr EXCEPT ![p] = FALSE]
    /\ prev' = [prev EXCEPT ![p] = Outcome(p)]
    /\ UNCHANGED <<pool, released, released_count>>

\* lines 3-6: the handler starts
Start(p) ==
    /\ pc' = [pc EXCEPT ![p] = "iter"]
    /\ released_count' = [released_count EXCEPT ![p] = 0]
    /\ token' = [token EXCEPT ![p] = 1]
    /\ page' = [page EXCEPT ![p] = <<>>]
    /\ elastic_ip' = [elastic_ip EXCEPT ![p] = NoElasticIp]
    /\ result' = [result EXCEPT ![p] = NoResult]
    /\ log' = [log EXCEPT ![p] = <<>>]
    /\ seen' = [seen EXCEPT ![p] = <<>>]
    /\ calls' = [calls EXCEPT ![p] = <<>>]
    /\ listErr' = [listErr EXCEPT ![p] = FALSE]
    /\ prev' = [prev EXCEPT ![p] = Outcome(p)]
    /\ UNCHANGED <<pool, released>>

\* a trigger invokes the handler
Invoke(p) ==
    /\ pc[p] = "idle"
    /\ Start(p)

\* the trigger fires again after the invocation ended
Reinvoke(p) ==
    /\ pc[p] \in Terminal
    /\ Start(p)

\* the last allocation of the page that starts at allocation t
LastOfPage(t) == IF t + PageSize - 1 < NumAllocs THEN t + PageSize - 1 ELSE NumAllocs

\* line 9: the collection fetches its next page, and the service answers
FetchPage(p) ==
    /\ pc[p] = "iter"
    /\ page[p] = <<>>
    /\ token[p] <= NumAllocs
    /\ page' = [page EXCEPT ![p] = Listing(token[p], LastOfPage(token[p]))]
    /\ token' = [token EXCEPT ![p] = LastOfPage(token[p]) + 1]
    /\ UNCHANGED <<pool, pc, released_count, elastic_ip, result, log, seen,
                   calls, listErr, prev, released>>

\* mutant: the listing's failure is swallowed and the loop just ends
EnumerationSwallowed(p) ==
    /\ pc[p] = "iter"
    /\ page[p] = <<>>
    /\ token[p] <= NumAllocs
    /\ listErr' = [listErr EXCEPT ![p] = TRUE]
    /\ token' = [token EXCEPT ![p] = NumAllocs + 1]
    /\ UNCHANGED <<pool, pc, released_count, page, elastic_ip, result, log,
                   seen, calls, prev, released>>

\* line 9: the page request raises; nothing catches it
EnumerationFails(p) ==
    /\ pc[p] = "iter"
    /\ page[p] = <<>>
    /\ token[p] <= NumAllocs
    /\ listErr' = [listErr EXCEPT ![p] = TRUE]
    /\ pc' = [pc EXCEPT ![p] = "failed"]
    /\ UNCHANGED <<pool, released_count, token, page, elastic_ip, result, log,
                   seen, calls, prev, released>>

\* mutant: the test of line 12 is dropped
AnyAddress(ip) == TRUE

\* line 12
Unassociated(ip) == ip.instance_id = None

\* mutant: nothing is printed before the call
NextItemNoPrint(p) ==
    /\ pc[p] = "iter"
    /\ page[p] # <<>>
    /\ elastic_ip' = [elastic_ip EXCEPT ![p] = Head(page[p])]
    /\ page' = [page EXCEPT ![p] = Tail(page[p])]
    /\ seen' = [seen EXCEPT ![p] = Append(seen[p], Head(page[p]))]
    /\ pc' = [pc EXCEPT ![p] = IF Unassociated(Head(page[p])) THEN "release" ELSE "iter"]
    /\ UNCHANGED <<pool, released_count, token, result, log, calls, listErr,
                   prev, released>>

\* lines 9, 12-14: the loop takes the next item, tests it and, when it is
\* unassociated, prints that it is releasing it
NextItem(p) ==
    /\ pc[p] = "iter"
    /\ page[p] # <<>>
    /\ elastic_ip' = [elastic_ip EXCEPT ![p] = Head(page[p])]
    /\ page' = [page EXCEPT ![p] = Tail(page[p])]
    /\ seen' = [seen EXCEPT ![p] = Append(seen[p], Head(page[p]))]
    /\ IF Unassociated(Head(page[p]))
       THEN /\ log' = [log EXCEPT ![p] = Append(log[p], InfoRecord(Head(page[p])))]
            /\ pc' = [pc EXCEPT ![p] = "release"]
       ELSE /\ log' = log
            /\ pc' = pc
    /\ UNCHANGED <<pool, released_count, token, result, calls, listErr,
                   prev, released>>

\* the service: a release of an address that exists and is unbound may go through
CanRelease(a) == pool[a] = None

\* the service: the errors a release of allocation a may raise now
MayRaise(a) ==
    IF pool[a] = Absent THEN {NotFound}
    ELSE IF pool[a] = None THEN {AuthFailure}
    ELSE {InUse}

\* mutant: the count is not raised after a release
ReleaseSucceedsUncounted(p) ==
    /\ pc[p] = "release"
    /\ CanRelease(elastic_ip[p].allocation_id)
    /\ pool' = [pool EXCEPT ![elastic_ip[p].allocation_id] = Absent]
    /\ calls' = [calls EXCEPT ![p] =
                    Append(@, [allocation_id |-> elastic_ip[p].allocation_id, outcome |-> Ok])]
    /\ released' = released \cup {elastic_ip[p].allocation_id}
    /\ pc' = [pc EXCEPT ![p] = "iter"]
    /\ UNCHANGED <<released_count, token, page, elastic_ip, result, log, seen,
                   listErr, prev>>

\* mutant: one bulk call releases every unassociated address of the pool
ReleaseSucceedsAll(p) ==
    /\ pc[p] = "release"
    /\ CanRelease(elastic_ip[p].allocation_id)
    /\ pool' = [a \in Allocs |-> IF pool[a] = None THEN Absent ELSE pool[a]]
    /\ released_count' = [released_count EXCEPT ![p] = @ + 1]
    /\ calls' = [calls EXCEPT ![p] =
                    Append(@, [allocation_id |-> elastic_ip[p].allocation_id, outcome |-> Ok])]
    /\ released' = released \cup {a \in Allocs : pool[a] = None}
    /\ pc' = [pc EXCEPT ![p] = "iter"]
    /\ UNCHANGED <<token, page, elastic_ip, result, log, seen, listErr, prev>>

\* lines 15-16: release() returns, the count goes up
ReleaseSucceeds(p) ==
    /\ pc[p] = "release"
    /\ CanRelease(elastic_ip[p].allocation_id)
    /\ pool' = [pool EXCEPT ![elastic_ip[p].allocation_id] = Absent]
    /\ released_count' = [released_count EXCEPT ![p] = @ + 1]
    /\ calls' = [calls EXCEPT ![p] =
                    Append(@, [allocation_id |-> elastic_ip[p].allocation_id, outcome |-> Ok])]
    /\ released' = released \cup {elastic_ip[p].allocation_id}
    /\ pc' = [pc EXCEPT ![p] = "iter"]
    /\ UNCHANGED <<token, page, elastic_ip, result, log, seen, listErr, prev>>

\* mutant: the count is raised before the call, so a failed call counts too
ReleaseFailsCounted(p, e) ==
    /\ pc[p] = "release"
    /\ e \in MayRaise(elastic_ip[p].allocation_id)
    /\ released_count' = [released_count EXCEPT ![p] = @ + 1]
    /\ calls' = [calls EXCEPT ![p] =
                    Append(@, [allocation_id |-> elastic_ip[p].allocation_id, outcome |-> e])]
    /\ log' = [log EXCEPT ![p] = Append(@, ErrorRecord(elastic_ip[p], e))]
    /\ pc' = [pc EXCEPT ![p] = "iter"]
    /\ UNCHANGED <<pool, token, page, elastic_ip, result, seen,
                   listErr, prev, released>>

\* mutant: no try/except, the failure of release() escapes the handler
ReleaseFailsAborts(p, e) ==
    /\ pc[p] = "release"
    /\ e \in MayRaise(elastic_ip[p].allocation_id)
    /\ calls' = [calls EXCEPT ![p] =
                    Append(@, [allocation_id |-> elastic_ip[p].allocation_id, outcome |-> e])]
    /\ pc' = [pc EXCEPT ![p] = "failed"]
    /\ UNCHANGED <<pool, released_count, token, page, elastic_ip, result, log,
                   seen, listErr, prev, released>>

\* mutant: a failed release is tried again
ReleaseFailsRetry(p, e) ==
    /\ pc[p] = "release"
    /\ e \in MayRaise(elastic_ip[p].allocation_id)
    /\ calls' = [calls EXCEPT ![p] =
                    Append(@, [allocation_id |-> elastic_ip[p].allocation_id, outcome |-> e])]
    /\ log' = [log EXCEPT ![p] = Append(@, ErrorRecord(elastic_ip[p], e))]
    /\ pc' = [pc EXCEPT ![p] = "release"]
    /\ UNCHANGED <<pool, released_count, token, page, elastic_ip, result, seen,
                   listErr, prev, released>>

\* lines 15, 17-18: release() raises e; it is caught and printed
ReleaseFails(p, e) ==
    /\ pc[p] = "release"
    /\ e \in MayRaise(elastic_ip[p].allocation_id)
    /\ calls' = [calls EXCEPT ![p] =
                    Append(@, [allocation_id |-> elastic_ip[p].allocation_id, outcome |-> e])]
    /\ log' = [log EXCEPT ![p] = Append(@, ErrorRecord(elastic_ip[p], e))]
    /\ pc' = [pc EXCEPT ![p] = "iter"]
    /\ UNCHANGED <<pool, released_count, token, page, elastic_ip, result, seen,
                   listErr, prev, released>>

\* mutant: a batch with a failed release reports an error status
ReturnErrorStatus(p) ==
    /\ pc[p] = "iter"
    /\ page[p] = <<>>
    /\ token[p] > NumAllocs
    /\ result' = [result EXCEPT ![p] =
                    [statusCode |-> IF \E i \in 1..Len(calls[p]) : calls[p][i].outcome # Ok
                                    THEN 500 ELSE StatusOK,
                     body |-> Body(released_count[p])]]
    /\ pc' = [pc EXCEPT ![p] = "done"]
    /\ UNCHANGED <<pool, released_count, token, page, elastic_ip, log, seen,
                   calls, listErr, prev, released>>

\* lines 20-23: the loop is over
Return(p) ==
    /\ pc[p] = "iter"
    /\ page[p] = <<>>
    /\ token[p] > NumAllocs
    /\ result' = [result EXCEPT ![p] =
                    [statusCode |-> StatusOK, body |-> Body(released_count[p])]]
    /\ pc' = [pc EXCEPT ![p] = "done"]
    /\ UNCHANGED <<pool, released_count, token, page, elastic_ip, log, seen,
                   calls, listErr, prev, released>>

\* the host cuts the invocation off
Timeout(p) ==
    /\ pc[p] \in Running
    /\ pc' = [pc EXCEPT ![p] = "timedout"]
    /\ UNCHANGED <<pool, released_count, token, page, elastic_ip, result, log,
                   seen, calls, listErr, prev, released>>

\* somebody else binds an address to an instance
Associate(a, i) ==
    /\ pool[a] = None
    /\ pool' = [pool EXCEPT ![a] = i]
    /\ UNCHANGED <<pc, released_count, token, page, elastic_ip, result, log,
                   seen, calls, listErr, prev, released>>

\* somebody else unbinds it
Disassociate(a) ==
    /\ pool[a] \in Instances
    /\ pool' = [pool EXCEPT ![a] = None]
    /\ UNCHANGED <<pc, released_count, token, page, elastic_ip, result, log,
                   seen, calls, listErr, prev, released>>

\* somebody else releases it
ReleaseElsewhere(a) ==
    /\ pool[a] = None
    /\ pool' = [pool EXCEPT ![a] = Absent]
    /\ UNCHANGED <<pc, released_count, token, page, elastic_ip, result, log,
                   seen, calls, listErr, prev, released>>

\* one step of the handler's own code
Step(p) ==
    \/ FetchPage(p)
    \/ EnumerationFails(p)
    \/ NextItem(p)
    \/ ReleaseSucceeds(p)
    \/ \E e \in ReleaseErrors : ReleaseFails(p, e)
    \/ Return(p)

\* ------------------------------------------------------- specifications
\* one invocation, while others change the pool under it; timeouts
Next ==
    \/ Invoke(1)
    \/ Step(1)
    \/ Timeout(1)
    \/ \E a \in Allocs, i \in Instances : Associate(a, i)
    \/ \E a \in Allocs : Disassociate(a)
    \/ \E a \in Allocs : ReleaseElsewhere(a)

Spec == Init /\ [][Next]_vars

\* concurrent invocations, nobody else touches the pool
NextConc ==
    \/ \E p \in Invokers : Invoke(p)
    \/ \E p \in Invokers : Step(p)

SpecConc == InitConc /\ [][NextConc]_vars

\* one trigger, run after run, nobody else touches the pool
NextSeq ==
    \/ Invoke(1)
    \/ Reinvoke(1)
    \/ Step(1)
    \/ Timeout(1)

SpecSeq == Init /\ [][NextSeq]_vars

\* one trigger, no timeout, the handler's steps are taken while they can be
NextRun ==
    \/ Invoke(1)
    \/ Reinvoke(1)
    \/ Step(1)

SpecFair == Init /\ [][NextRun]_vars /\ WF_vars(Step(1))

\* ------------------------------------------------- reading the histories
Idx(q) == 1..Len(q)
CallIdx(p, a) == {i \in Idx(calls[p]) : calls[p][i].allocation_id = a}
OkIdx(p) == {i \in Idx(calls[p]) : calls[p][i].outcome = Ok}
FailIdx(p) == {i \in Idx(calls[p]) : calls[p][i].outcome # Ok}
OkIds(p) == {calls[p][i].allocation_id : i \in OkIdx(p)}
CallIds(p) == {calls[p][i].allocation_id : i \in Idx(calls[p])}
SeenIds(p) == {seen[p][i].allocation_id : i \in Idx(seen[p])}
SeenUnassociated(p) ==
    {seen[p][i].allocation_id : i \in {j \in Idx(seen[p]) : seen[p][j].instance_id = None}}
SeenAssociated(p) ==
    {seen[p][i].allocation_id : i \in {j \in Idx(seen[p]) : seen[p][j].instance_id # None}}
Records(p, level, a) ==
    {i \in Idx(log[p]) : log[p][i].level = level /\ log[p][i].allocation_id = a}

DigitValue(c) == CASE c = "0" -> 0 [] c = "1" -> 1 [] c = "2" -> 2 [] c = "3" -> 3
                   [] c = "4" -> 4 [] c = "5" -> 5 [] c = "6" -> 6 [] c = "7" -> 7
                   [] c = "8" -> 8 [] c = "9" -> 9

RECURSIVE StrToInt(_)
StrToInt(ds) == IF Len(ds) = 1 THEN DigitValue(ds[1])
                ELSE 10 * StrToInt(SubSeq(ds, 1, Len(ds) - 1)) + DigitValue(ds[Len(ds)])

\* the N of a body 'Released N unassociated EIP(s).'
CountOf(body) == StrToInt(SubSeq(body, 2, Len(body) - 1))

WellFormedBody(body) ==
    /\ Len(body) >= 3
    /\ body[1] = "Released "
    /\ body[Len(body)] = " unassociated EIP(s)."
    /\ \A i \in 2..(Len(body) - 1) : body[i] \in {Digit(d) : d \in 0..9}
    /\ Len(body) > 3 => body[2] # "0"

\* with nobody else touching the pool, the allocations that were unassociated
\* before the invocations: those still unassociated and those released since
UnassociatedAtFirst == {a \in Allocs : pool[a] = None} \cup released

RECURSIVE SumReturned(_)
SumReturned(n) ==
    IF n = 0 THEN 0
    ELSE SumReturned(n - 1) + (IF pc[n] = "done" THEN CountOf(result[n].body) ELSE 0)

\* ----------------------------------------------------------------- claims

\* C1: an allocation whose bound-instance identifier was present when the
\* loop enumerated it is never passed to release() in that invocation.
C1_AssociatedNeverReleased ==
    \A p \in Invokers : \A a \in SeenAssociated(p) : CallIdx(p, a) = {}

C1_Witness ==
    \E p \in Invokers :
        /\ pc[p] = "done"
        /\ SeenAssociated(p) # {}
        /\ calls[p] # <<>>

\* C2: when the handler returns, the N of the body is the number of release
\* calls of the invocation that returned without raising, whatever the
\* number of calls attempted and whichever of them failed.
C2_CountIsSuccessfulCalls ==
    \A p \in Invokers :
        pc[p] = "done" =>
            /\ WellFormedBody(result[p].body)
            /\ CountOf(result[p].body) = Cardinality(OkIdx(p))

C2_Witness ==
    \E p \in Invokers :
        /\ pc[p] = "done"
        /\ OkIdx(p) # {}
        /\ FailIdx(p) # {}

\* C3: a failed release call, of whatever kind, does not abort the batch:
\* only a failure of the listing ends an invocation without a result, and an
\* invocation that returns has attempted a release for every unassociated
\* allocation it enumerated, those after the failed one included, and
\* returns statusCode 200.
C3_FailureIsolation ==
    \A p \in Invokers :
        /\ pc[p] = "failed" => listErr[p]
        /\ pc[p] = "done" =>
              /\ SeenUnassociated(p) \subseteq CallIds(p)
              /\ result[p].statusCode = StatusOK

\* the first call failed, the calls after it were still made, and a failure
\* of every kind happened in the one invocation
C3_Witness ==
    \E p \in Invokers :
        /\ pc[p] = "done"
        /\ Len(calls[p]) >= 2
        /\ calls[p][1].outcome # Ok
        /\ {calls[p][i].outcome : i \in FailIdx(p)} = ReleaseErrors

\* C4: in an invocation that completes, every allocation enumerated with an
\* absent bound-instance identifier gets exactly one release call; at no
\* time has any allocation had more than one (no retry after a failure).
C4_ExactlyOneAttempt ==
    \A p \in Invokers :
        /\ \A a \in Allocs : Cardinality(CallIdx(p, a)) <= 1
        /\ pc[p] = "done" =>
              \A a \in SeenUnassociated(p) : Cardinality(CallIdx(p, a)) = 1

C4_Witness ==
    \E p \in Invokers :
        /\ pc[p] = "done"
        /\ Cardinality(SeenUnassociated(p)) >= 2
        /\ \E i \in FailIdx(p) : i < Len(calls[p])

\* C5 as stated: a run that follows a run that returned releases nothing and
\* returns a count of 0.
C5_SecondRunReleasesNothing ==
    \A p \in Invokers :
        (prev[p] \in {"clean", "partial"} /\ pc[p] = "done") =>
            /\ OkIdx(p) = {}
            /\ CountOf(result[p].body) = 0

\* C5 amended: a run that follows a run that returned and in which every
\* release call succeeded, with no change to the pool in between, makes no
\* release call and returns a count of 0.
C5_SecondRunAfterCleanRun ==
    \A p \in Invokers :
        prev[p] = "clean" =>
            /\ calls[p] = <<>>
            /\ released_count[p] = 0
            /\ pc[p] = "done" => result[p].body = Body(0)

C5_Witness ==
    \E p \in Invokers :
        /\ prev[p] = "clean"
        /\ pc[p] = "done"
        /\ released # {}

\* C6 as stated: after an invocation the log holds one informational record
\* for each allocation whose release succeeded and none for one whose
\* release failed, and one error record for each whose release failed.
C6_InfoRecordOnSuccessOnly ==
    \A p \in Invokers :
        pc[p] = "done" =>
            \A a \in Allocs :
                /\ Cardinality(Records(p, "info", a)) =
                       Cardinality(CallIdx(p, a) \cap OkIdx(p))
                /\ Cardinality(Records(p, "error", a)) =
                       Cardinality(CallIdx(p, a) \cap FailIdx(p))

\* C6 amended: the informational record, naming the public address and the
\* allocation identifier, is printed before each release call, whether the
\* call then succeeds or fails: the log holds one such record per allocation
\* on which release was attempted (and one for the allocation whose call is
\* pending or was cut off before it was made), and one error record, naming
\* the allocation and the failure, per failed call.
C6_InfoRecordPerAttempt ==
    \A p \in Invokers : \A a \in Allocs :
        /\ Cardinality(Records(p, "info", a)) \in
               {Cardinality(CallIdx(p, a)), Cardinality(CallIdx(p, a)) + 1}
        /\ (pc[p] = "release" /\ elastic_ip[p].allocation_id = a) =>
               Cardinality(Records(p, "info", a)) = Cardinality(CallIdx(p, a)) + 1
        /\ Cardinality(Records(p, "info", a)) # Cardinality(CallIdx(p, a)) =>
               (pc[p] \in {"release", "timedout"} /\ elastic_ip[p].allocation_id = a)
        /\ Cardinality(Records(p, "error", a)) =
               Cardinality(CallIdx(p, a) \cap FailIdx(p))
        /\ \A i \in Records(p, "info", a) : log[p][i].public_ip = PublicIp(a)
        /\ \A i \in Records(p, "error", a) :
               \E j \in CallIdx(p, a) : log[p][i].detail = calls[p][j].outcome

\* two unassociated allocations, the first release fails, the second succeeds
C6_Witness ==
    \E p \in Invokers :
        /\ pc[p] = "done"
        /\ Len(calls[p]) = 2
        /\ calls[p][1].outcome # Ok
        /\ calls[p][2].outcome = Ok

\* C7: a failure of the listing, on the first page or a later one, is not
\* caught: the invocation ends as failed with no result, and makes no
\* release call afterwards.
C7_EnumerationFailureAborts ==
    /\ [](\A p \in Invokers :
            listErr[p] => (pc[p] = "failed" /\ result[p] = NoResult))
    /\ [][\A p \in Invokers :
            (listErr[p] /\ listErr'[p]) => (calls'[p] = calls[p] /\ pc'[p] = "failed")]_vars

\* the second page failed, after a release call was made
C7_Witness ==
    \E p \in Invokers :
        /\ listErr[p]
        /\ calls[p] # <<>>

\* C8: with concurrent invocations over one pool, at most one release call
\* per allocation succeeds; the others fail, are logged and abort nothing;
\* the counts returned add up to no more than the unassociated allocations
\* the pool had; every invocation that returns returns statusCode 200.
C8_ConcurrentInvocations ==
    /\ \A p \in Invokers :
          /\ \A i, j \in OkIdx(p) :
                calls[p][i].allocation_id = calls[p][j].allocation_id => i = j
          /\ \A q \in Invokers \ {p} : OkIds(p) \cap OkIds(q) = {}
          /\ \A i \in FailIdx(p) :
                \E j \in Idx(log[p]) :
                    log[p][j] = ErrorRecord(calls[p][i], calls[p][i].outcome)
          /\ pc[p] = "failed" => listErr[p]
          /\ pc[p] = "done" => result[p].statusCode = StatusOK
    /\ SumReturned(NumInvokers) <= Cardinality(UnassociatedAtFirst)

\* two invocations called release on the same allocation and both returned
C8_Witness ==
    \E p, q \in Invokers : \E a \in Allocs :
        /\ p # q
        /\ pc[p] = "done" /\ pc[q] = "done"
        /\ \E i \in CallIdx(p, a) : calls[p][i].outcome = Ok
        /\ \E j \in CallIdx(q, a) : calls[q][j].outcome = NotFound

\* C9: wherever the invocation is cut off, release has been called only on
\* allocations the loop has reached; the pool changes only by the release of
\* the allocation the loop is at, so the ones not reached are as they were;
\* a released allocation stays released.
C9_CutOffLeavesRestUntouched ==
    /\ [](\A p \in Invokers : CallIds(p) \subseteq SeenIds(p))
    /\ [][\A a \in Allocs :
            /\ pool'[a] # pool[a] =>
                  /\ pool'[a] = Absent
                  /\ \E p \in Invokers :
                        /\ pc[p] = "release"
                        /\ elastic_ip[p].allocation_id = a
                        /\ a \in SeenIds(p)
            /\ pool[a] = Absent => pool'[a] = Absent]_vars
    /\ [][\A p \in Invokers :
            pc'[p] = "timedout" => (pool' = pool /\ calls'[p] = calls[p])]_vars

\* cut off after a release, with an unassociated allocation not yet reached
C9_Witness ==
    \E p \in Invokers :
        /\ pc[p] = "timedout"
        /\ OkIdx(p) # {}
        /\ \E a \in Allocs : a \notin SeenIds(p) /\ pool[a] = None

\* C10: an invocation whose listing does not fail terminates and returns
\* statusCode 200 and the body 'Released N unassociated EIP(s).' with
\* 0 <= N <= the number of allocations enumerated as unassociated, however
\* many release calls failed; with nothing enumerated N is 0 and no release
\* call is made.
C10_TerminatesWithSummary ==
    /\ [](\A p \in Invokers :
            /\ pc[p] = "failed" => listErr[p]
            /\ pc[p] = "done" =>
                  /\ DOMAIN result[p] = {"statusCode", "body"}
                  /\ result[p].statusCode = StatusOK
                  /\ WellFormedBody(result[p].body)
                  /\ CountOf(result[p].body) >= 0
                  /\ CountOf(result[p].body) <= Cardinality(SeenUnassociated(p))
                  /\ seen[p] = <<>> =>
                        (result[p].body = <<"Released ", "0", " unassociated EIP(s).">>
                         /\ calls[p] = <<>>))
    /\ \A p \in Invokers :
          (pc[p] \in Running) ~> (pc[p] = "done" \/ listErr[p])

\* returned although a release failed, with a count below the attempts
C10_Witness ==
    \E p \in Invokers :
        /\ pc[p] = "done"
        /\ FailIdx(p) # {}
        /\ CountOf(result[p].body) < Cardinality(SeenUnassociated(p))
        /\ CountOf(result[p].body) > 0

====
